---- MODULE Spec2Model ----
(***************************************************************************)
(* Model of plover_websocket_server/lookup.py: lookup(engine, text).       *)
(*                                                                         *)
(* Strings are sequences of one-character strings, so that tokenizing,    *)
(* joining, lower-casing and measuring them is computed and not assumed.   *)
(* A stroke sequence (a Python tuple of stroke strings) is a sequence of   *)
(* strokes, and a stroke is the sequence of its characters, so len(s) is   *)
(* Len(s) and sum(len(p) for p in s) is KeyCount(s).                        *)
(***************************************************************************)
EXTENDS Integers, Sequences, FiniteSets, TLC

\* Longest input text, in characters.
MaxTextLen == 3
\* Largest number of (translation, strokes) entries the engine holds.
MaxEntries == 2

\* The characters input texts are drawn from: a lower-case and an upper-case
\* letter, a digit, a currency sign (also a lone punctuation mark) and a blank.
Chars == {"a", "A", "1", "$", " "}

Texts == UNION {[1..n -> Chars] : n \in 0..MaxTextLen}

----------------------------------------------------------------------------
(* Character classes of Python's re and str, on the characters above.      *)

IsDigit(c) == c \in {"0", "1", "2", "3", "4", "5", "6", "7", "8", "9"}

IsUpper(c) == c \in {"A"}

IsLower(c) == c \in {"a"}

\* \w : letters, digits and the underscore
IsWordChar(c) == IsDigit(c) \/ IsUpper(c) \/ IsLower(c) \/ c = "_"

\* \s
IsSpace(c) == c = " "

\* str.isalnum() of one character
IsAlnum(c) == IsDigit(c) \/ IsUpper(c) \/ IsLower(c)

\* [$ euro pound] of the token pattern and of the numeric clean-up
IsCurrency(c) == c \in {"$"}

IsApostrophe(c) == c \in {"'"}

LowerChar(c) == IF c = "A" THEN "a" ELSE c

\* str.lower()
Lower(s) == [k \in 1..Len(s) |-> LowerChar(s[k])]

----------------------------------------------------------------------------
(* The tokenizer: re.findall(token_regex, text_to_lookup).                 *)

\* Last index of the greedy \d+ starting at p (p-1 when there is none).
DigitRunEnd(s, p) ==
    CHOOSE e \in (p - 1)..Len(s) :
        /\ \A k \in p..e : IsDigit(s[k])
        /\ (e = Len(s) \/ ~IsDigit(s[e + 1]))

\* Last index of the greedy \w+ starting at p (p-1 when there is none).
WordRunEnd(s, p) ==
    CHOOSE e \in (p - 1)..Len(s) :
        /\ \A k \in p..e : IsWordChar(s[k])
        /\ (e = Len(s) \/ ~IsWordChar(s[e + 1]))

RECURSIVE CommaGroups(_, _)
\* (?:,\d+)* after a digit run ending at e
CommaGroups(s, e) ==
    IF e + 2 <= Len(s) /\ s[e + 1] = "," /\ IsDigit(s[e + 2])
    THEN CommaGroups(s, DigitRunEnd(s, e + 2))
    ELSE e

RECURSIVE ApostropheGroups(_, _)
\* (?:['’]\w+)* after a word run ending at e
ApostropheGroups(s, e) ==
    IF e + 2 <= Len(s) /\ IsApostrophe(s[e + 1]) /\ IsWordChar(s[e + 2])
    THEN ApostropheGroups(s, WordRunEnd(s, e + 2))
    ELSE e

\* [$€£]?\d+(?:,\d+)*  at p: the last index matched, 0 when it does not match
MatchNumber(s, p) ==
    LET q == IF IsCurrency(s[p]) /\ p + 1 <= Len(s) /\ IsDigit(s[p + 1])
             THEN p + 1 ELSE p
        e == DigitRunEnd(s, q)
    IN  IF e < q THEN 0 ELSE CommaGroups(s, e)

\* \w+(?:['’]\w+)*  at p
MatchWord(s, p) ==
    LET e == WordRunEnd(s, p)
    IN  IF e < p THEN 0 ELSE ApostropheGroups(s, e)

\* [^\w\s]  at p
MatchPunct(s, p) == IF ~IsWordChar(s[p]) /\ ~IsSpace(s[p]) THEN p ELSE 0

\* The alternatives are tried in order at each position.
TokenEnd(s, p) ==
    IF MatchNumber(s, p) # 0 THEN MatchNumber(s, p)
    ELSE IF MatchWord(s, p) # 0 THEN MatchWord(s, p)
    ELSE MatchPunct(s, p)

RECURSIVE TokensFrom(_, _)
TokensFrom(s, p) ==
    IF p > Len(s) THEN <<>>
    ELSE LET e == TokenEnd(s, p)
         IN  IF e = 0 THEN TokensFrom(s, p + 1)
             ELSE <<SubSeq(s, p, e)>> \o TokensFrom(s, e + 1)

Tokenize(s) == TokensFrom(s, 1)

RECURSIVE Join(_)
\* " ".join(words)
Join(words) ==
    IF words = <<>> THEN <<>>
    ELSE IF Len(words) = 1 THEN words[1]
    ELSE words[1] \o <<" ">> \o Join(Tail(words))

----------------------------------------------------------------------------
(* The engine: the reverse-lookup capability and the longest key.          *)

\* The stroke characters, in a fixed order used to enumerate strokes.
KeyOrder == <<"1", "A", "D", "K", "P", "R", "S", "T", "W">>

KeyIdx(k) == CHOOSE n \in 1..Len(KeyOrder) : KeyOrder[n] = k

\* The entries a dictionary may hold: translation |-> stroke sequence.
Entries ==
    { [phrase |-> <<"a">>,           stroke |-> << <<"S">> >>],
      [phrase |-> <<"A">>,           stroke |-> << <<"K">>, <<"W">>, <<"R">> >>],
      [phrase |-> <<"$">>,           stroke |-> << <<"P">> >>],
      [phrase |-> <<"{", "$", "}">>, stroke |-> << <<"D">> >>],
      [phrase |-> <<"$", " ", "$">>, stroke |-> << <<"W">> >>],
      [phrase |-> <<"$", " ", "$">>, stroke |-> << <<"T", "P">>, <<"R">> >>],
      [phrase |-> <<"1">>,           stroke |-> << <<"1">> >>] }

Dictionaries == {d \in SUBSET Entries : Cardinality(d) <= MaxEntries}

\* engine.reverse_lookup(phrase): the set of stroke sequences for a translation
reverse_lookup(d, phrase) == {e.stroke : e \in {x \in d : x.phrase = phrase}}

SetMax(S) == CHOOSE m \in S : \A n \in S : n <= m

\* engine._dictionaries.longest_key: the length, in strokes, of the longest
\* key of the dictionaries (0 for an empty collection)
LongestKeyOf(d) == SetMax({0} \cup {Len(e.stroke) : e \in d})

\* sum(len(p) for p in s)
RECURSIVE KeyCount(_)
KeyCount(s) == IF s = <<>> THEN 0 ELSE Len(Head(s)) + KeyCount(Tail(s))

RECURSIVE LexLess(_, _)
\* lexicographic order of two sequences of numbers (Python's tuple order)
LexLess(a, b) ==
    IF b = <<>> THEN FALSE
    ELSE IF a = <<>> THEN TRUE
    ELSE IF Head(a) # Head(b) THEN Head(a) < Head(b)
    ELSE LexLess(Tail(a), Tail(b))

RECURSIVE Flat(_)
\* a stroke sequence as numbers, 0 between strokes
Flat(s) ==
    IF s = <<>> THEN <<>>
    ELSE [k \in 1..Len(Head(s)) |-> KeyIdx(Head(s)[k])] \o <<0>> \o Flat(Tail(s))

\* Python gives no order to the elements of a set: the order in which a set of
\* stroke sequences is iterated is one of two opposite enumerations.
SetOrders == {0, 1}

IterBefore(s, t, ord) ==
    IF ord = 0 THEN LexLess(Flat(s), Flat(t)) ELSE LexLess(Flat(t), Flat(s))

----------------------------------------------------------------------------
(* get_steno_for_phrase                                                    *)

cap_next_results == << <<"K", "P", "A">> >>

\* command_phrase = f"{{{phrase}}}"
command_phrase(phrase) == <<"{">> \o phrase \o <<"}">>

\* the second reverse_lookup, made for a single non-word character
steno_from_command(d, phrase) ==
    IF Len(phrase) = 1 /\ ~IsAlnum(phrase[1])
    THEN reverse_lookup(d, command_phrase(phrase))
    ELSE {}

\* steno_capitalized after the update with the command hits
steno_capitalized(d, phrase) ==
    reverse_lookup(d, phrase) \cup steno_from_command(d, phrase)

steno_lowercase_modified(d, phrase) ==
    IF Lower(phrase) # phrase
    THEN {cap_next_results \o s_lower : s_lower \in reverse_lookup(d, Lower(phrase))}
    ELSE {}

\* re.sub(r"[$,€£]", "", phrase.replace(",", ""))
numeric_phrase(phrase) ==
    SelectSeq(phrase, LAMBDA c : ~(IsCurrency(c) \/ c = ","))

\* str.isdigit()
IsDigitString(s) == s # <<>> /\ \A k \in 1..Len(s) : IsDigit(s[k])

\* min(digit_steno, key=len): the first of the shortest, in iteration order
MinByLen(S, ord) ==
    CHOOSE s \in S : \A t \in S \ {s} :
        Len(s) < Len(t) \/ (Len(s) = Len(t) /\ IterBefore(s, t, ord))

RECURSIVE digit_steno_concat(_, _, _)
\* combined_digit_steno, for digits that all resolve
digit_steno_concat(d, digits, ord) ==
    IF digits = <<>> THEN <<>>
    ELSE MinByLen(reverse_lookup(d, <<Head(digits)>>), ord)
             \o digit_steno_concat(d, Tail(digits), ord)

all_digits_found(d, digits) ==
    \A k \in 1..Len(digits) : reverse_lookup(d, <<digits[k]>>) # {}

combined(d, phrase, ord) ==
    LET base == steno_capitalized(d, phrase) \cup steno_lowercase_modified(d, phrase)
        np   == numeric_phrase(phrase)
    IN  IF IsDigitString(np) /\ all_digits_found(d, np)
        THEN base \cup {digit_steno_concat(d, np, ord)}
        ELSE base

\* key=lambda s: (s not in steno_capitalized, len(s), sum(len(p) for p in s))
StenoSortKey(d, phrase, s) ==
    <<IF s \in steno_capitalized(d, phrase) THEN 0 ELSE 1, Len(s), KeyCount(s)>>

RECURSIVE SortedSet(_, _, _, _)
\* sorted(S, key=...): stable, so equal keys stay in the set's iteration order
SortedSet(S, d, phrase, ord) ==
    IF S = {} THEN <<>>
    ELSE LET m == CHOOSE s \in S : \A t \in S \ {s} :
                      \/ LexLess(StenoSortKey(d, phrase, s), StenoSortKey(d, phrase, t))
                      \/ /\ StenoSortKey(d, phrase, s) = StenoSortKey(d, phrase, t)
                         /\ IterBefore(s, t, ord)
         IN  <<m>> \o SortedSet(S \ {m}, d, phrase, ord)

\* The sorted candidates of a phrase; <<>> stands for None.
get_steno_for_phrase(d, phrase, ord) ==
    SortedSet(combined(d, phrase, ord), d, phrase, ord)

\* What the call leaves in the engine's store: steno_capitalized.update(...)
\* writes into the set reverse_lookup returned; when the engine hands out the
\* set it holds for the phrase, the command hits are now stored under it.
StoreAfterLookup(d, phrase, shared) ==
    IF shared /\ reverse_lookup(d, phrase) # {}
    THEN d \cup {[phrase |-> phrase, stroke |-> s] : s \in steno_from_command(d, phrase)}
    ELSE d

----------------------------------------------------------------------------
(* solve and the ranking of its result                                     *)

VARIABLES
    dict,         \* the entries the engine holds
    longest_key,  \* engine._dictionaries.longest_key
    shared,       \* whether reverse_lookup hands out the set the engine holds
    set_order,    \* the iteration order of sets during this call
    text,         \* text_to_lookup
    pc,           \* "start", "solve" or "done"
    memo,         \* memo: words_tuple |-> all_solutions
    stack,        \* the active calls of solve, the innermost last
    result        \* what lookup returned

vars == <<dict, longest_key, shared, set_order, text, pc, memo, stack, result>>

\* prefix_phrase = " ".join(words_tuple[:i])
prefix_phrase(words_tuple, i) == Join(SubSeq(words_tuple, 1, i))

\* mutant: the suffix starts at the last token of the prefix
suffix_tuple_overlap(words_tuple, i) == SubSeq(words_tuple, i, Len(words_tuple))

\* suffix_tuple = words_tuple[i:]
suffix_tuple(words_tuple, i) == SubSeq(words_tuple, i + 1, Len(words_tuple))

\* mutant: a placeholder candidate where the resolver has none
get_steno_options_placeholder(d, words_tuple, i, ord) ==
    IF get_steno_for_phrase(d, Join(SubSeq(words_tuple, 1, i)), ord) = <<>>
    THEN << <<>> >>
    ELSE get_steno_for_phrase(d, Join(SubSeq(words_tuple, 1, i)), ord)

\* get_steno_options(i)
get_steno_options(d, words_tuple, i, ord) ==
    get_steno_for_phrase(d, prefix_phrase(words_tuple, i), ord)

Min(a, b) == IF a <= b THEN a ELSE b

\* max_lookup_length = min(len(words_tuple), engine._dictionaries.longest_key)
max_lookup_length(words_tuple, lk) == Min(Len(words_tuple), lk)

RECURSIVE JoinNoSep(_)
JoinNoSep(words) == IF words = <<>> THEN <<>> ELSE Head(words) \o JoinNoSep(Tail(words))

\* mutant: the segment's text is the prefix's tokens joined without blanks
process_i_nosep(words_tuple, i, best_steno_for_prefix, suffix_solutions) ==
    [k \in 1..Len(suffix_solutions) |->
        <<[text |-> JoinNoSep(SubSeq(words_tuple, 1, i)), steno |-> best_steno_for_prefix]>>
            \o suffix_solutions[k]]

\* the list process_i returns
process_i(words_tuple, i, best_steno_for_prefix, suffix_solutions) ==
    [k \in 1..Len(suffix_solutions) |->
        <<[text |-> prefix_phrase(words_tuple, i), steno |-> best_steno_for_prefix]>>
            \o suffix_solutions[k]]

\* mutant: the memo table is keyed by the first remaining token only
MemoKey_first(words_tuple) == <<Head(words_tuple)>>

\* the key under which solve looks up and stores a result
MemoKey(words_tuple) == words_tuple

InMemo(m, words_tuple) == MemoKey(words_tuple) \in DOMAIN m

MemoStore(m, words_tuple, all_solutions) ==
    [w \in DOMAIN m \cup {MemoKey(words_tuple)} |->
        IF w = MemoKey(words_tuple) THEN all_solutions ELSE m[w]]

\* A call of solve that returns at once: the base case or a memo hit.
ReturnsAtOnce(m, words_tuple) ==
    IF words_tuple = <<>> THEN TRUE ELSE InMemo(m, words_tuple)

SolvedValue(m, words_tuple) ==
    IF words_tuple = <<>> THEN << <<>> >> ELSE m[MemoKey(words_tuple)]

\* a call of solve that runs its body
Frame(words_tuple, lk) ==
    [words_tuple   |-> words_tuple,
     i             |-> max_lookup_length(words_tuple, lk),
     best          |-> <<>>,
     all_solutions |-> <<>>]

RECURSIVE SumStrokes(_)
\* sum(len(item["steno"]) for item in seq)
SumStrokes(seq) ==
    IF seq = <<>> THEN 0 ELSE Len(Head(seq).steno) + SumStrokes(Tail(seq))

RECURSIVE SumKeys(_)
\* sum(sum(len(p) for p in item["steno"]) for item in seq)
SumKeys(seq) ==
    IF seq = <<>> THEN 0 ELSE KeyCount(Head(seq).steno) + SumKeys(Tail(seq))

\* the key of the final sort
RankKey(seq) == <<SumStrokes(seq), SumKeys(seq)>>

RECURSIVE InsertByStrokes(_, _)
\* mutant: the sort compares the total stroke counts only
InsertByStrokes(sorted, x) ==
    IF sorted = <<>> THEN <<x>>
    ELSE IF SumStrokes(x) < SumStrokes(Head(sorted))
         THEN <<x>> \o sorted
         ELSE <<Head(sorted)>> \o InsertByStrokes(Tail(sorted), x)

RECURSIVE InsertByKey(_, _)
\* x placed after every element whose key is not greater (a stable sort)
InsertByKey(sorted, x) ==
    IF sorted = <<>> THEN <<x>>
    ELSE IF LexLess(RankKey(x), RankKey(Head(sorted)))
         THEN <<x>> \o sorted
         ELSE <<Head(sorted)>> \o InsertByKey(Tail(sorted), x)

\* mutant: the sequences are returned in the order solve enumerated them
sorted_sequences_unsorted(seqs) == seqs

RECURSIVE sorted_sequences(_)
\* sorted(all_possible_sequences, key=...)
sorted_sequences(seqs) ==
    IF seqs = <<>> THEN <<>>
    ELSE InsertByKey(sorted_sequences(SubSeq(seqs, 1, Len(seqs) - 1)), seqs[Len(seqs)])

\* what lookup returns for the result of the outermost solve
Returned(all_possible_sequences) ==
    IF all_possible_sequences = <<>> THEN <<>>
    ELSE sorted_sequences(all_possible_sequences)

Top == stack[Len(stack)]

SetTop(f) == [stack EXCEPT ![Len(stack)] = f]

Init ==
    /\ dict \in Dictionaries
    /\ longest_key = LongestKeyOf(dict)
    /\ shared \in BOOLEAN
    /\ set_order \in SetOrders
    /\ text \in Texts
    /\ pc = "start"
    /\ memo = <<>>
    /\ stack = <<>>
    /\ result = <<>>

\* lookup up to its call of solve: an empty token list returns at once
Lookup ==
    /\ pc = "start"
    /\ memo' = <<>>
    /\ LET words == Tokenize(text)
       IN  IF words = <<>>
           THEN /\ stack' = <<>>
                /\ result' = Returned(SolvedValue(memo', words))
                /\ pc' = "done"
           ELSE /\ stack' = <<Frame(words, longest_key)>>
                /\ result' = result
                /\ pc' = "solve"
    /\ UNCHANGED <<dict, longest_key, shared, set_order, text>>

\* one prefix length without candidates: the comprehension moves on
LoopSkip ==
    /\ pc = "solve" /\ stack # <<>> /\ Top.i >= 1
    /\ get_steno_options(dict, Top.words_tuple, Top.i, set_order) = <<>>
    /\ dict' = StoreAfterLookup(dict, prefix_phrase(Top.words_tuple, Top.i), shared)
    /\ stack' = SetTop([Top EXCEPT !.i = @ - 1])
    /\ UNCHANGED <<longest_key, shared, set_order, text, pc, memo, result>>

\* a prefix with candidates whose suffix returns at once (empty or memoized)
LoopCombine ==
    /\ pc = "solve" /\ stack # <<>> /\ Top.i >= 1
    /\ LET steno_options == get_steno_options(dict, Top.words_tuple, Top.i, set_order)
           suffix == suffix_tuple(Top.words_tuple, Top.i)
       IN  /\ steno_options # <<>>
           /\ ReturnsAtOnce(memo, suffix)
           /\ stack' = SetTop([Top EXCEPT
                  !.i = @ - 1,
                  !.all_solutions = @ \o process_i(Top.words_tuple, Top.i,
                                        steno_options[1], SolvedValue(memo, suffix))])
    /\ dict' = StoreAfterLookup(dict, prefix_phrase(Top.words_tuple, Top.i), shared)
    /\ UNCHANGED <<longest_key, shared, set_order, text, pc, memo, result>>

\* a prefix with candidates whose suffix has to be solved: the recursive call
LoopDescend ==
    /\ pc = "solve" /\ stack # <<>> /\ Top.i >= 1
    /\ LET steno_options == get_steno_options(dict, Top.words_tuple, Top.i, set_order)
           suffix == suffix_tuple(Top.words_tuple, Top.i)
       IN  /\ steno_options # <<>>
           /\ ~ReturnsAtOnce(memo, suffix)
           /\ stack' = Append(SetTop([Top EXCEPT !.best = steno_options[1]]),
                              Frame(suffix, longest_key))
    /\ dict' = StoreAfterLookup(dict, prefix_phrase(Top.words_tuple, Top.i), shared)
    /\ UNCHANGED <<longest_key, shared, set_order, text, pc, memo, result>>

\* the comprehension is exhausted: store in memo and return to the caller,
\* which combines (process_i), or to lookup, which sorts and returns
SolveReturn ==
    /\ pc = "solve" /\ stack # <<>> /\ Top.i = 0
    /\ memo' = MemoStore(memo, Top.words_tuple, Top.all_solutions)
    /\ IF Len(stack) = 1
       THEN /\ stack' = <<>>
            /\ result' = Returned(Top.all_solutions)
            /\ pc' = "done"
       ELSE LET caller == stack[Len(stack) - 1]
            IN  /\ stack' = [SubSeq(stack, 1, Len(stack) - 1) EXCEPT
                       ![Len(stack) - 1] = [caller EXCEPT
                           !.i = @ - 1,
                           !.best = <<>>,
                           !.all_solutions = @ \o process_i(caller.words_tuple, caller.i,
                                                 caller.best, Top.all_solutions)]]
                /\ result' = result
                /\ pc' = pc
    /\ UNCHANGED <<dict, longest_key, shared, set_order, text>>

Next == Lookup \/ LoopSkip \/ LoopCombine \/ LoopDescend \/ SolveReturn

Spec == Init /\ [][Next]_vars

----------------------------------------------------------------------------
(* solve as a function, every suffix recomputed (no memo table), with the  *)
(* longest key lk as a parameter.                                          *)

RECURSIVE solve_recomputed(_, _, _, _)
RECURSIVE solve_prefixes(_, _, _, _, _)

solve_recomputed(d, words_tuple, lk, ord) ==
    IF words_tuple = <<>> THEN << <<>> >>
    ELSE solve_prefixes(d, words_tuple, max_lookup_length(words_tuple, lk), lk, ord)

\* the comprehension from prefix length i down to 1
solve_prefixes(d, words_tuple, i, lk, ord) ==
    IF i = 0 THEN <<>>
    ELSE LET steno_options == get_steno_options(d, words_tuple, i, ord)
         IN  (IF steno_options # <<>>
              THEN process_i(words_tuple, i, steno_options[1],
                       solve_recomputed(d, suffix_tuple(words_tuple, i), lk, ord))
              ELSE <<>>)
             \o solve_prefixes(d, words_tuple, i - 1, lk, ord)

\* lookup as a function of the engine's state, the text and the set order
lookup_recomputed(d, lk, txt, ord) ==
    Returned(solve_recomputed(d, Tokenize(txt), lk, ord))

----------------------------------------------------------------------------
(* Properties                                                              *)

Tokens == Tokenize(text)

Done == pc = "done"

SegTexts(seg) == [j \in 1..Len(seg) |-> seg[j].text]

RECURSIVE TotalStrokesTo(_, _)
TotalStrokesTo(seg, n) ==
    IF n = 0 THEN 0 ELSE Len(seg[n].steno) + TotalStrokesTo(seg, n - 1)

RECURSIVE StrokeKeysTo(_, _)
StrokeKeysTo(s, n) == IF n = 0 THEN 0 ELSE Len(s[n]) + StrokeKeysTo(s, n - 1)

RECURSIVE TotalKeysTo(_, _)
TotalKeysTo(seg, n) ==
    IF n = 0 THEN 0
    ELSE StrokeKeysTo(seg[n].steno, Len(seg[n].steno)) + TotalKeysTo(seg, n - 1)

\* (total stroke count, total key count) of a segmentation
Cost(seg) == <<TotalStrokesTo(seg, Len(seg)), TotalKeysTo(seg, Len(seg))>>

PairLess(a, b) == a[1] < b[1] \/ (a[1] = b[1] /\ a[2] < b[2])

\* The phrase has a candidate: an exact or command match, a lower-case
\* fallback or a digit composition, read off the dictionary.
HasCandidates(d, phrase) ==
    \/ reverse_lookup(d, phrase) # {}
    \/ /\ Len(phrase) = 1 /\ ~IsAlnum(phrase[1])
       /\ reverse_lookup(d, <<"{">> \o phrase \o <<"}">>) # {}
    \/ /\ Lower(phrase) # phrase
       /\ reverse_lookup(d, Lower(phrase)) # {}
    \/ LET np == SelectSeq(phrase, LAMBDA c : c \notin {"$", ","})
       IN  /\ np # <<>>
           /\ \A k \in 1..Len(np) : IsDigit(np[k]) /\ reverse_lookup(d, <<np[k]>>) # {}

\* C1: every returned Segmentation reconstructs the input: its segments'
\* texts joined with single spaces are the tokens joined with single spaces.
C1_Reconstruction ==
    Done => \A k \in 1..Len(result) : Join(SegTexts(result[k])) = Join(Tokens)

\* a returned Segmentation of several segments, one of them of several tokens
C1_Witness ==
    /\ Done
    /\ \E k \in 1..Len(result) :
          /\ Len(result[k]) >= 2
          /\ \E j \in 1..Len(result[k]) :
                \E c \in 1..Len(result[k][j].text) : result[k][j].text[c] = " "

\* C2: the returned list is ordered by (total strokes, total keys): no
\* Segmentation is followed by one with a lexicographically smaller pair.
C2_Ranked ==
    Done => \A a, b \in 1..Len(result) :
                a < b => ~PairLess(Cost(result[b]), Cost(result[a]))

\* the sort moved a cheaper Segmentation ahead of one enumerated before it
C2_Witness ==
    /\ Done
    /\ Len(result) >= 2
    /\ PairLess(Cost(result[1]), Cost(result[2]))
    /\ result # memo[Tokens]

RECURSIVE SumSeq(_)
SumSeq(q) == IF q = <<>> THEN 0 ELSE Head(q) + SumSeq(Tail(q))

\* the ways of splitting n tokens into contiguous runs, as the runs' lengths
Splits(n) == {sp \in UNION {[1..k -> 1..n] : k \in 0..n} : SumSeq(sp) = n}

\* the phrase of the j-th run of a split of words
RunPhrase(words, sp, j) ==
    LET before == SumSeq(SubSeq(sp, 1, j - 1))
    IN  Join(SubSeq(words, before + 1, before + sp[j]))

ValidSplit(d, words, sp) ==
    \A j \in 1..Len(sp) : HasCandidates(d, RunPhrase(words, sp, j))

\* the number of tokens of a phrase
TokenCount(phrase) == 1 + Cardinality({c \in 1..Len(phrase) : phrase[c] = " "})

SplitOf(seg) == [j \in 1..Len(seg) |-> TokenCount(seg[j].text)]

\* C3: the returned list holds exactly one Segmentation for every split of the
\* tokens into runs whose phrases all have candidates, and none for any other
\* split.
C3_AllSplitsOnce ==
    Done => \A sp \in Splits(Len(Tokens)) :
                Cardinality({k \in 1..Len(result) : SplitOf(result[k]) = sp})
                    = IF ValidSplit(dict, Tokens, sp) THEN 1 ELSE 0

\* C4: the output does not depend on the order in which the sets of strokes
\* are iterated: a call under any set order returns what this call returned.
C4_Deterministic ==
    Done => \A o \in SetOrders : lookup_recomputed(dict, longest_key, text, o) = result

\* C5: solve with the memo table returns what solve without it returns: every
\* stored entry is the recomputed result of its suffix, whatever prefix led to
\* it, and the returned list is the ranked recomputed result.
C5_MemoEquivalence ==
    /\ \A w \in DOMAIN memo : memo[w] = solve_recomputed(dict, w, longest_key, set_order)
    /\ Done => result = lookup_recomputed(dict, longest_key, text, set_order)

EndsWith(seg, tail) ==
    /\ Len(seg) > Len(tail)
    /\ SubSeq(seg, Len(seg) - Len(tail) + 1, Len(seg)) = tail

\* a memoized suffix that two returned Segmentations reach through prefixes
\* split differently: the second one took it from the memo table
C5_Witness ==
    /\ Done
    /\ \E w \in DOMAIN memo : \E k1, k2 \in 1..Len(result) :
          /\ w # Tokens /\ memo[w] # <<>>
          /\ EndsWith(result[k1], memo[w][1])
          /\ EndsWith(result[k2], memo[w][1])
          /\ Len(result[k1]) # Len(result[k2])

\* C6: the prefix-length bound does not change the result: lookup returns what
\* it returns with the bound L = remaining token count.
C6_BoundIsOptimization ==
    Done => result = lookup_recomputed(dict, Len(Tokens), text, set_order)

RECURSIVE CoverCosts(_, _, _)
\* the costs of all coverings of words by contiguous phrases, each phrase
\* with any of the strokes the resolver yields for it
CoverCosts(d, words, ord) ==
    IF words = <<>> THEN {<<0, 0>>}
    ELSE UNION { { <<Len(s) + c[1], StrokeKeysTo(s, Len(s)) + c[2]>> :
                     s \in {get_steno_for_phrase(d, Join(SubSeq(words, 1, i)), ord)[n] :
                              n \in 1..Len(get_steno_for_phrase(d, Join(SubSeq(words, 1, i)), ord))},
                     c \in CoverCosts(d, SubSeq(words, i + 1, Len(words)), ord) } :
                 i \in 1..Len(words) }

RECURSIVE TopCoverCosts(_, _, _, _)
\* the costs of the coverings by phrases of at most lk tokens, each phrase with
\* the resolver's top-ranked stroke
TopCoverCosts(d, words, lk, ord) ==
    IF words = <<>> THEN {<<0, 0>>}
    ELSE UNION { LET opts == get_steno_for_phrase(d, Join(SubSeq(words, 1, i)), ord)
                 IN  IF opts = <<>> THEN {}
                     ELSE { <<Len(opts[1]) + c[1], StrokeKeysTo(opts[1], Len(opts[1])) + c[2]>> :
                              c \in TopCoverCosts(d, SubSeq(words, i + 1, Len(words)), lk, ord) } :
                 i \in 1..Min(Len(words), lk) }

Uncovered(d, words, k) ==
    \A a \in 1..k : \A b \in k..Len(words) : ~HasCandidates(d, Join(SubSeq(words, a, b)))

\* C8: a token without candidates that no resolvable multi-token phrase spans
\* makes lookup return the empty list, as a normal result.
C8_NoMatchPropagates ==
    (Done /\ \E k \in 1..Len(Tokens) : Uncovered(dict, Tokens, k)) => result = <<>>

\* an empty result for tokens of which one resolves and another does not
C8_Witness ==
    /\ Done
    /\ result = <<>>
    /\ \E k \in 1..Len(Tokens) : Uncovered(dict, Tokens, k)
    /\ \E k \in 1..Len(Tokens) : HasCandidates(dict, Tokens[k])

\* C9: lookup leaves the sets the reverse-lookup capability holds as they were.
C9_DictionaryUnchanged == [][dict' = dict]_vars

\* A number that every step of lookup makes smaller: with B above the number
\* n of tokens, each active call of solve on m tokens counts B^m for every
\* prefix length it has still to try (the one a recursive call is working on is
\* not counted), plus one for its return.
RECURSIVE FramesWeight(_, _, _)
FramesWeight(stk, k, B) ==
    IF k = 0 THEN 0
    ELSE (stk[k].i - (IF k < Len(stk) THEN 1 ELSE 0)) * B ^ Len(stk[k].words_tuple)
         + 1 + FramesWeight(stk, k - 1, B)

Variant(p, stk, n) ==
    IF p = "start" THEN (n + 2) ^ (n + 2)
    ELSE IF p = "done" THEN 0
    ELSE FramesWeight(stk, Len(stk), n + 2)

\* C10: lookup terminates: every recursive call of solve is on a strictly
\* shorter, non-empty suffix than its caller's (the empty suffix returns
\* without running the body), and every step of lookup decreases a natural
\* number; a lookup that has not returned has an active call of solve that can
\* try its next prefix length or return.
C10_Terminates ==
    [][/\ (Len(stack') > Len(stack) /\ stack # <<>>) =>
             Len(stack'[Len(stack')].words_tuple) < Len(stack[Len(stack)].words_tuple)
       /\ \A k \in 1..Len(stack') : stack'[k].words_tuple # <<>>
       /\ pc' = "solve" =>
             /\ stack' # <<>>
             /\ stack'[Len(stack')].i \in 0..Len(stack'[Len(stack')].words_tuple)
       /\ Variant(pc', stack', Len(Tokenize(text'))) >= 0
       /\ Variant(pc', stack', Len(Tokenize(text'))) < Variant(pc, stack, Len(Tokenize(text)))
      ]_vars

\* three nested calls of solve, on ever shorter suffixes
C10_Witness ==
    /\ Len(stack) = 3
    /\ Len(stack[3].words_tuple) = 1

====
